---- MODULE Spec2Model ----
(***************************************************************************)
(* A model of simulator_8086: the 8086 instruction decoder (Codec) and the *)
(* executor (Cpu) that drives it.                                           *)
(*                                                                         *)
(* The specifications share the state:                                     *)
(*   Spec        Cpu::execute_instruction applied to one instruction in a  *)
(*               register file and flag state the public API can produce;  *)
(*   SpecRun     Cpu::run on a byte program: decode, execute, until the    *)
(*               decoder reports the end of the stream (SpecRunFair: the   *)
(*               loop keeps going while it can);                           *)
(*   SpecDecode  Codec::next_opcode called in turn on a byte stream, over  *)
(*               every first byte and every mod/reg/r-m byte;              *)
(*   SpecWords   Codec::next_opcode on one instruction that ends with a    *)
(*               16-bit or 8-bit value, over the values;                   *)
(*   SpecReadError  Codec::next_opcode over a source one of whose reads    *)
(*               fails with an io::Error;                                  *)
(*   SpecBytes   Codec::get_byte called until the end signal, the source   *)
(*               delivering chunks of varying sizes;                       *)
(*   SpecRegister  Register::new and its Display on u8 pairs;              *)
(*   SpecDump    Cpu::execute_instruction as in Spec, then the public      *)
(*               Cpu::print_registers.                                     *)
(***************************************************************************)
EXTENDS Integers, Naturals, Sequences, FiniteSets, TLC

VARIABLES
    registers,        \* Cpu.registers: [u16; 11]
    zf, sf, pf, of,   \* Cpu flags
    instructions,     \* Cpu.instructions: the Codec (buf, len, cur_byte) and its source's position
    source,           \* the bytes of the byte source handed to Codec::new
    chunk,            \* the most bytes one Read::read call of the source delivers
    read_error_at,    \* the position at which Read::read of the source fails with an io::Error
    status,           \* "running", "done" (run returned), "panic" (fatal error)
    fetched,          \* run: the instruction bound by `while let`, with the position it began at
    jumped,           \* history: the last executed instruction invoked Codec::jump
    trace             \* history: the executed instructions with the state each started from

vars == <<registers, zf, sf, pf, of, instructions, source, chunk, read_error_at,
          status, fetched, jumped, trace>>

cpuVars == <<registers, zf, sf, pf, of, instructions>>

----------------------------------------------------------------------------
(* Machine integers *)

U16 == 65536

\* the two's-complement u16 of an integer (i16 as u16, wrapping arithmetic)
AsU16(x) == x % U16

\* i8 / i16 reading of an unsigned byte / word
AsI8(b) == IF b >= 128 THEN b - 256 ELSE b

Min(a, b) == IF a < b THEN a ELSE b

AsI16(x) == IF x >= 32768 THEN x - U16 ELSE x

RECURSIVE BitAndN(_, _, _)
BitAndN(x, y, n) ==
    IF n = 0 THEN 0
    ELSE (x % 2) * (y % 2) + 2 * BitAndN(x \div 2, y \div 2, n - 1)

RECURSIVE BitOrN(_, _, _)
BitOrN(x, y, n) ==
    IF n = 0 THEN 0
    ELSE (IF (x % 2) + (y % 2) > 0 THEN 1 ELSE 0) + 2 * BitOrN(x \div 2, y \div 2, n - 1)

\* u16 & u16, u16 | u16, u16 << k (bits shifted out are dropped), u16 >> k
And16(x, y) == BitAndN(x, y, 16)

Or16(x, y) == BitOrN(x, y, 16)

Shl16(x, k) == (x * (2 ^ k)) % U16

Shr16(x, k) == x \div (2 ^ k)

RECURSIVE count_ones(_)
count_ones(x) == IF x = 0 THEN 0 ELSE (x % 2) + count_ones(x \div 2)

\* u16::overflowing_sub: the wrapped difference and whether it borrowed
overflowing_sub(a, b) == [result |-> (a - b) % U16, overflowed |-> b > a]

----------------------------------------------------------------------------
(* Instruction model (instruction.rs) *)

Register ==
    {"AL", "CL", "DL", "BL", "AH", "CH", "DH", "BH",
     "AX", "CX", "DX", "BX", "SP", "BP", "SI", "DI", "SS", "DS", "ES"}

JumpType ==
    {"Je", "Jl", "Jle", "Jb", "Jbe", "Jp", "Jo", "Js", "Jne", "Jnl", "Jnle",
     "Jnb", "Jnbe", "Jnp", "Jno", "Jns", "Loop", "Jnloopzs", "Loopnz", "Jcxz"}

\* Location::Register / Location::Memory / Location::Immediate; an absent
\* Option is "None" (registers) or -1 (the width tag)
LocRegister(r) ==
    [t |-> "Register", reg |-> r, data |-> 0, w |-> -1,
     reg1 |-> "None", reg2 |-> "None", displacement |-> 0]

LocMemory(r1, r2, d) ==
    [t |-> "Memory", reg |-> "None", data |-> 0, w |-> -1,
     reg1 |-> r1, reg2 |-> r2, displacement |-> d]

LocImmediate(d, wtag) ==
    [t |-> "Immediate", reg |-> "None", data |-> d, w |-> wtag,
     reg1 |-> "None", reg2 |-> "None", displacement |-> 0]

NoLoc ==
    [t |-> "None", reg |-> "None", data |-> 0, w |-> -1,
     reg1 |-> "None", reg2 |-> "None", displacement |-> 0]

\* Instruction::{Mov, Add, Adc, Sbb, Sub, Cmp}(src, dest)
Binary(o, s, d) == [op |-> o, src |-> s, dst |-> d, ty |-> "None", offset |-> 0]

\* Instruction::Jump(ty, offset)
Jump(k, off) == [op |-> "Jump", src |-> NoLoc, dst |-> NoLoc, ty |-> k, offset |-> off]

\* Instruction::{Inc, Dec}(dest, None)
Unary(o, d) == [op |-> o, src |-> NoLoc, dst |-> d, ty |-> "None", offset |-> 0]

\* Instruction::{Daa, Aaa}
Nullary(o) == [op |-> o, src |-> NoLoc, dst |-> NoLoc, ty |-> "None", offset |-> 0]

----------------------------------------------------------------------------
(* Decoder (decoder.rs): the Codec over a byte source *)

\* Codec.buf: [u8; 1024]
BufSize == 1024

\* Register::new with no failing arm: the fields taken modulo their widths
Register_new_total(opcode, w) ==
    IF w % 2 = 1
    THEN <<"AX", "CX", "DX", "BX", "SP", "BP", "SI", "DI">>[(opcode % 8) + 1]
    ELSE <<"AL", "CL", "DL", "BL", "AH", "CH", "DH", "BH">>[(opcode % 8) + 1]

\* impl Display for Register: the lower-case name
Register_fmt(reg) ==
    CASE reg = "AL" -> "al" [] reg = "CL" -> "cl" [] reg = "DL" -> "dl"
      [] reg = "BL" -> "bl" [] reg = "AH" -> "ah" [] reg = "CH" -> "ch"
      [] reg = "DH" -> "dh" [] reg = "BH" -> "bh" [] reg = "AX" -> "ax"
      [] reg = "CX" -> "cx" [] reg = "DX" -> "dx" [] reg = "BX" -> "bx"
      [] reg = "SP" -> "sp" [] reg = "BP" -> "bp" [] reg = "SI" -> "si"
      [] reg = "DI" -> "di" [] reg = "SS" -> "ss" [] reg = "DS" -> "ds"
      [] reg = "ES" -> "es"

\* Register::new(opcode, w): the 8086 REG table
Register_new(opcode, w) ==
    CASE opcode = 0 /\ w = 0 -> "AL"
      [] opcode = 0 /\ w = 1 -> "AX"
      [] opcode = 1 /\ w = 0 -> "CL"
      [] opcode = 1 /\ w = 1 -> "CX"
      [] opcode = 2 /\ w = 0 -> "DL"
      [] opcode = 2 /\ w = 1 -> "DX"
      [] opcode = 3 /\ w = 0 -> "BL"
      [] opcode = 3 /\ w = 1 -> "BX"
      [] opcode = 4 /\ w = 0 -> "AH"
      [] opcode = 4 /\ w = 1 -> "SP"
      [] opcode = 5 /\ w = 0 -> "CH"
      [] opcode = 5 /\ w = 1 -> "BP"
      [] opcode = 6 /\ w = 0 -> "DH"
      [] opcode = 6 /\ w = 1 -> "SI"
      [] opcode = 7 /\ w = 0 -> "BH"
      [] opcode = 7 /\ w = 1 -> "DI"
      [] OTHER -> "panic"

\* Codec::new(source)
Codec_new == [buf |-> <<>>, len |-> 0, cur_byte |-> 0, pos |-> 0]

\* the size of one read of the source at position p
read_size(p) ==
    Min(Min(chunk, BufSize), IF p < Len(source) THEN Len(source) - p ELSE 0)

\* load_bytes over a source that loses one byte after every read
load_bytes_skipping(c) ==
    [buf |-> SubSeq(source, c.pos + 1, c.pos + read_size(c.pos)),
     len |-> read_size(c.pos), cur_byte |-> 0, pos |-> c.pos + read_size(c.pos) + 1]

\* Codec::load_bytes: one read of the source into buf; buf is modelled by the
\* bytes the read delivered (buf[..len]), pos is the source's own position
load_bytes(c) ==
    [buf |-> SubSeq(source, c.pos + 1, c.pos + read_size(c.pos)),
     len |-> read_size(c.pos), cur_byte |-> 0, pos |-> c.pos + read_size(c.pos)]

\* results of the decoding steps: st is "ok", "none" (Option::None) or
\* "panic"; v the value; c the Codec afterwards
Res(s, val, cc) == [st |-> s, v |-> val, c |-> cc]

\* `r?` and the code after it: an Option::None or a panic ends the decoding
\* step, a value goes on into F with the Codec as it is by then
Then(r, F(_, _)) == IF r.st = "ok" THEN F(r.v, r.c) ELSE r

\* .unwrap() of an Option result
unwrap(r) == IF r.st = "ok" THEN r ELSE Res("panic", r.v, r.c)

\* Codec::get_byte once the buffer holds what it can: None when it is empty
byte_of(c1) ==
    IF c1.len = 0
    THEN Res("none", 0, c1)
    ELSE Res("ok", c1.buf[c1.cur_byte + 1], [c1 EXCEPT !.cur_byte = c1.cur_byte + 1])

\* the source never fails: no position is a read_error_at
NoReadError == -1

\* Codec::get_byte: `self.load_bytes().ok()?` gives None when the read fails
get_byte(c) ==
    IF c.cur_byte >= c.len
    THEN IF c.pos = read_error_at THEN Res("none", 0, c) ELSE byte_of(load_bytes(c))
    ELSE byte_of(c)

\* Codec::load_two: Some((get_byte()?, get_byte()?))
load_two(c) ==
    Then(get_byte(c), LAMBDA lo, c1 :
        Then(get_byte(c1), LAMBDA hi, c2 : Res("ok", <<lo, hi>>, c2)))

\* word_of with the first byte read as the high one
word_of_big_endian(bytes) == AsI16(Shl16(bytes[1], 8)) + bytes[2]

\* ((bytes.1 as i16) << 8) + bytes.0 as i16
word_of(bytes) == AsI16(Shl16(bytes[2], 8)) + bytes[1]

\* Codec::generate_displacement_value(w)
generate_displacement_value(c, w) ==
    IF w = 1
    THEN Then(unwrap(load_two(c)), LAMBDA bytes, c1 : Res("ok", word_of(bytes), c1))
    ELSE Then(unwrap(get_byte(c)), LAMBDA b, c1 : Res("ok", AsI8(b), c1))

\* Codec::get_immediate_data(w): Immediate::new(data, None)
get_immediate_data(c, w) ==
    IF w = 1
    THEN Then(unwrap(load_two(c)), LAMBDA bytes, c1 :
            Res("ok", LocImmediate(word_of(bytes), -1), c1))
    ELSE Then(unwrap(get_byte(c)), LAMBDA b, c1 :
            Res("ok", LocImmediate(AsI8(b), -1), c1))

\* address_registers without the direct-address case
address_registers_no_direct(rm, md) ==
    CASE rm = 0 -> <<"BX", "SI">>
      [] rm = 1 -> <<"BX", "DI">>
      [] rm = 2 -> <<"BP", "SI">>
      [] rm = 3 -> <<"BP", "DI">>
      [] rm = 4 -> <<"SI", "None">>
      [] rm = 5 -> <<"DI", "None">>
      [] rm = 6 -> <<"BP", "None">>
      [] rm = 7 -> <<"BX", "None">>

\* the base and index registers of get_memory_location
address_registers(rm, md) ==
    CASE rm = 6 /\ md = 0 -> <<"None", "None">>
      [] rm = 0 -> <<"BX", "SI">>
      [] rm = 1 -> <<"BX", "DI">>
      [] rm = 2 -> <<"BP", "SI">>
      [] rm = 3 -> <<"BP", "DI">>
      [] rm = 4 -> <<"SI", "None">>
      [] rm = 5 -> <<"DI", "None">>
      [] rm = 6 -> <<"BP", "None">>
      [] rm = 7 -> <<"BX", "None">>

\* address_displacement reading two bytes for mod = 01 as well
address_displacement_always_word(c, rm, md) ==
    IF md = 2 \/ md = 1 \/ (md = 0 /\ rm = 6)
    THEN Then(unwrap(load_two(c)), LAMBDA bytes, c1 : Res("ok", word_of(bytes), c1))
    ELSE Res("ok", 0, c)

\* the displacement of get_memory_location
address_displacement(c, rm, md) ==
    IF md = 2 \/ (md = 0 /\ rm = 6)
    THEN Then(unwrap(load_two(c)), LAMBDA bytes, c1 : Res("ok", word_of(bytes), c1))
    ELSE IF md = 1
    THEN Then(unwrap(get_byte(c)), LAMBDA b, c1 : Res("ok", AsI8(b), c1))
    ELSE Res("ok", 0, c)

\* Codec::get_memory_location(rm, md): the effective-address table
get_memory_location(c, rm, md) ==
    Then(address_displacement(c, rm, md), LAMBDA displacement, c1 :
        Res("ok", LocMemory(address_registers(rm, md)[1], address_registers(rm, md)[2],
                            displacement), c1))

\* Codec::decode_accumulator(b1)
decode_accumulator(c, b1) ==
    Then(generate_displacement_value(c, And16(b1, 1)), LAMBDA displacement, c1 :
        IF Shr16(b1, 1) = 80
        THEN Res("ok", Binary("Mov", LocMemory("None", "None", displacement),
                              LocRegister(IF And16(b1, 1) = 1 THEN "AX" ELSE "AL")), c1)
        ELSE Res("ok", Binary("Mov", LocRegister(IF And16(b1, 1) = 1 THEN "AX" ELSE "AL"),
                              LocMemory("None", "None", displacement)), c1))

\* Codec::decode_immediate_to_register(b1)
decode_immediate_to_register(c, b1) ==
    Then(get_immediate_data(c, And16(Shr16(b1, 3), 1)), LAMBDA immediate, c1 :
        Res("ok", Binary("Mov", immediate,
                         LocRegister(Register_new(And16(b1, 7), And16(Shr16(b1, 3), 1)))), c1))

\* Codec::decode_immediate_to_register_memory(b1)
decode_immediate_to_register_memory(c, b1) ==
    Then(unwrap(get_byte(c)), LAMBDA b2, c1 :
        Then(get_memory_location(c1, And16(b2, 7), Shr16(b2, 6)), LAMBDA memory, c2 :
            Then(get_immediate_data(c2, And16(b1, 1)), LAMBDA immediate, c3 :
                Res("ok", Binary("Mov", [immediate EXCEPT !.w = And16(b1, 1)], memory), c3))))

\* register_memory_operands with the meaning of the d bit reversed
register_memory_operands_reversed(d, w, md, reg, rm, c) ==
    IF md = 3
    THEN Res("ok",
             IF d = 0
             THEN <<LocRegister(Register_new(rm, w)), LocRegister(Register_new(reg, w))>>
             ELSE <<LocRegister(Register_new(reg, w)), LocRegister(Register_new(rm, w))>>,
             c)
    ELSE Then(get_memory_location(c, rm, md), LAMBDA memory, c1 :
            Res("ok",
                IF d = 0
                THEN <<memory, LocRegister(Register_new(reg, w))>>
                ELSE <<LocRegister(Register_new(reg, w)), memory>>,
                c1))

\* register_memory_operands ignoring the d bit between two registers
register_memory_operands_ignoring_d(d, w, md, reg, rm, c) ==
    IF md = 3
    THEN Res("ok", <<LocRegister(Register_new(reg, w)), LocRegister(Register_new(rm, w))>>, c)
    ELSE Then(get_memory_location(c, rm, md), LAMBDA memory, c1 :
            Res("ok",
                IF d = 1
                THEN <<memory, LocRegister(Register_new(reg, w))>>
                ELSE <<LocRegister(Register_new(reg, w)), memory>>,
                c1))

\* the operands of decode_register_to_memory_locations once b2 is read
register_memory_operands(d, w, md, reg, rm, c) ==
    IF md = 3
    THEN Res("ok",
             IF d = 1
             THEN <<LocRegister(Register_new(rm, w)), LocRegister(Register_new(reg, w))>>
             ELSE <<LocRegister(Register_new(reg, w)), LocRegister(Register_new(rm, w))>>,
             c)
    ELSE Then(get_memory_location(c, rm, md), LAMBDA memory, c1 :
            Res("ok",
                IF d = 1
                THEN <<memory, LocRegister(Register_new(reg, w))>>
                ELSE <<LocRegister(Register_new(reg, w)), memory>>,
                c1))

\* Codec::decode_register_to_memory_locations(b1): <<src, dest>>
decode_register_to_memory_locations(c, b1) ==
    Then(unwrap(get_byte(c)), LAMBDA b2, c1 :
        register_memory_operands(Shr16(And16(b1, 2), 1), And16(b1, 1), Shr16(b2, 6),
                                 And16(Shr16(b2, 3), 7), And16(b2, 7), c1))

\* Codec::decode_register_to_memory(b1)
decode_register_to_memory(c, b1) ==
    Then(decode_register_to_memory_locations(c, b1), LAMBDA l, c1 :
        Res("ok", Binary("Mov", l[1], l[2]), c1))

\* the match on arithmetic_opcode shared by the three arithmetic decoders;
\* any other value is unreachable!()
arithmetic_of(arithmetic_opcode, l1, l2, c) ==
    CASE arithmetic_opcode = 0 -> Res("ok", Binary("Add", l1, l2), c)
      [] arithmetic_opcode = 5 -> Res("ok", Binary("Sub", l1, l2), c)
      [] arithmetic_opcode = 7 -> Res("ok", Binary("Cmp", l1, l2), c)
      [] OTHER -> Res("panic", NoLoc, c)

\* Codec::decode_arithmetic_register_memory(b1)
decode_arithmetic_register_memory(c, b1) ==
    Then(decode_register_to_memory_locations(c, b1), LAMBDA l, c1 :
        arithmetic_of(And16(Shr16(b1, 3), 7), l[1], l[2], c1))

\* the r/m operand of decode_arithmetic_immediate_to_register_memory
immediate_target(c, b1, rm, md) ==
    IF md = 3
    THEN Res("ok", LocRegister(Register_new(rm, And16(b1, 1))), c)
    ELSE get_memory_location(c, rm, md)

\* Codec::decode_arithmetic_immediate_to_register_memory(b1)
decode_arithmetic_immediate_to_register_memory(c, b1) ==
    Then(unwrap(get_byte(c)), LAMBDA b2, c1 :
        Then(immediate_target(c1, b1, And16(b2, 7), Shr16(b2, 6)), LAMBDA memory, c2 :
            Then(get_immediate_data(c2, IF And16(b1, 3) = 1 THEN 1 ELSE 0), LAMBDA data, c3 :
                arithmetic_of(And16(Shr16(b2, 3), 7),
                              IF Shr16(b2, 6) # 3 THEN [data EXCEPT !.w = And16(b1, 1)] ELSE data,
                              memory, c3))))

\* Codec::decode_arithmetic_immediate_to_accumulator(b1)
decode_arithmetic_immediate_to_accumulator(c, b1) ==
    Then(generate_displacement_value(c, And16(b1, 1)), LAMBDA displacement, c1 :
        arithmetic_of(And16(Shr16(b1, 3), 7), LocMemory("None", "None", displacement),
                      LocRegister(IF And16(b1, 1) = 1 THEN "AX" ELSE "AL"), c1))

\* the 20 short-jump opcodes of Codec::next_opcode (User Manual page 161)
JumpOpcode ==
    [b \in {116, 124, 126, 114, 118, 122, 112, 120, 117, 125, 127, 115, 119,
            123, 113, 121, 226, 225, 224, 227} |->
        CASE b = 116 -> "Je"   [] b = 124 -> "Jl"   [] b = 126 -> "Jle"
          [] b = 114 -> "Jb"   [] b = 118 -> "Jbe"  [] b = 122 -> "Jp"
          [] b = 112 -> "Jo"   [] b = 120 -> "Js"   [] b = 117 -> "Jne"
          [] b = 125 -> "Jnl"  [] b = 127 -> "Jnle" [] b = 115 -> "Jnb"
          [] b = 119 -> "Jnbe" [] b = 123 -> "Jnp"  [] b = 113 -> "Jno"
          [] b = 121 -> "Jns"  [] b = 226 -> "Loop" [] b = 225 -> "Jnloopzs"
          [] b = 224 -> "Loopnz" [] b = 227 -> "Jcxz"]

\* decode_prefix ending the stream on a prefix it does not know
decode_prefix_ending_stream(c, b1, prefix) ==
    CASE prefix = 11 -> decode_immediate_to_register(c, b1)
      [] prefix = 8 ->
            IF Shr16(b1, 2) = 32
            THEN decode_arithmetic_immediate_to_register_memory(c, b1)
            ELSE decode_register_to_memory(c, b1)
      [] prefix = 12 -> decode_immediate_to_register_memory(c, b1)
      [] prefix = 10 -> decode_accumulator(c, b1)
      [] prefix \in {0, 2, 3} ->
            IF And16(Shr16(b1, 2), 1) = 1
            THEN decode_arithmetic_immediate_to_accumulator(c, b1)
            ELSE decode_arithmetic_register_memory(c, b1)
      [] prefix = 4 ->
            IF And16(Shr16(b1, 3), 1) = 1
            THEN Res("ok", Unary("Dec", LocRegister(Register_new(And16(b1, 7), 1))), c)
            ELSE Res("ok", Unary("Inc", LocRegister(Register_new(And16(b1, 7), 1))), c)
      [] OTHER -> Res("none", NoLoc, c)

\* the dispatch of next_opcode on the high nibble of b1
decode_prefix(c, b1, prefix) ==
    CASE prefix = 11 -> decode_immediate_to_register(c, b1)
      [] prefix = 8 ->
            IF Shr16(b1, 2) = 32
            THEN decode_arithmetic_immediate_to_register_memory(c, b1)
            ELSE decode_register_to_memory(c, b1)
      [] prefix = 12 -> decode_immediate_to_register_memory(c, b1)
      [] prefix = 10 -> decode_accumulator(c, b1)
      [] prefix \in {0, 2, 3} ->
            IF And16(Shr16(b1, 2), 1) = 1
            THEN decode_arithmetic_immediate_to_accumulator(c, b1)
            ELSE decode_arithmetic_register_memory(c, b1)
      [] prefix = 4 ->
            IF And16(Shr16(b1, 3), 1) = 1
            THEN Res("ok", Unary("Dec", LocRegister(Register_new(And16(b1, 7), 1))), c)
            ELSE Res("ok", Unary("Inc", LocRegister(Register_new(And16(b1, 7), 1))), c)
      [] OTHER -> Res("panic", NoLoc, c)

\* Codec::next_opcode: "ok" with the instruction, "none" at the end of the
\* stream (every `?` on a missing byte), "panic" on unwrap / unreachable!()
next_opcode(c) ==
    Then(get_byte(c), LAMBDA b1, c1 :
        IF b1 \in DOMAIN JumpOpcode
        THEN Then(get_byte(c1), LAMBDA b, c2 : Res("ok", Jump(JumpOpcode[b1], AsI8(b)), c2))
        ELSE IF b1 = 55 THEN Res("ok", Nullary("Aaa"), c1)
        ELSE IF b1 = 39 THEN Res("ok", Nullary("Daa"), c1)
        ELSE decode_prefix(c1, b1, Shr16(b1, 4)))

\* Codec::next_op, the public call of Cpu::run: the next decoded Instruction
\* or None at the end of the stream
next_op(c) == next_opcode(c)

\* the read position in the byte stream: the source's position less the
\* bytes of buf not yet handed out
position(c) == c.pos - (c.len - c.cur_byte)

\* Codec::jump(offset): reposition the source by the signed offset relative
\* to the current read position; the buffered bytes are dropped. A target
\* before the start of the stream is a failed seek ("err")
jump(c, offset) ==
    IF position(c) + offset < 0
    THEN Res("err", 0, c)
    ELSE Res("ok", 0, [buf |-> <<>>, len |-> 0, cur_byte |-> 0, pos |-> position(c) + offset])

----------------------------------------------------------------------------
(* Executor (cpu.rs) *)

\* Cpu::decode_register: the cell of the register file and the view (Bits)
decode_register(reg) ==
    CASE reg = "AL" -> [idx |-> 0, w |-> "Low"]
      [] reg = "CL" -> [idx |-> 2, w |-> "Low"]
      [] reg = "DL" -> [idx |-> 3, w |-> "Low"]
      [] reg = "BL" -> [idx |-> 1, w |-> "Low"]
      [] reg = "AH" -> [idx |-> 0, w |-> "High"]
      [] reg = "CH" -> [idx |-> 2, w |-> "High"]
      [] reg = "DH" -> [idx |-> 3, w |-> "High"]
      [] reg = "BH" -> [idx |-> 1, w |-> "High"]
      [] reg = "AX" -> [idx |-> 0, w |-> "All"]
      [] reg = "CX" -> [idx |-> 2, w |-> "All"]
      [] reg = "DX" -> [idx |-> 3, w |-> "All"]
      [] reg = "BX" -> [idx |-> 1, w |-> "All"]
      [] reg = "SP" -> [idx |-> 4, w |-> "All"]
      [] reg = "BP" -> [idx |-> 5, w |-> "All"]
      [] reg = "SI" -> [idx |-> 6, w |-> "All"]
      [] reg = "DI" -> [idx |-> 7, w |-> "All"]
      [] reg = "SS" -> [idx |-> 8, w |-> "All"]
      [] reg = "DS" -> [idx |-> 9, w |-> "All"]
      [] reg = "ES" -> [idx |-> 10, w |-> "All"]

\* source_value reading a Memory source as 0 instead of refusing it
source_value_memory_as_zero(regs, src) ==
    CASE src.t = "Register" ->
            LET d == decode_register(src.reg)
                reg == regs[d.idx]
            IN (CASE d.w = "High" -> Shr16(reg, 8)
                  [] d.w = "Low" -> And16(reg, 255)
                  [] d.w = "All" -> reg)
      [] src.t = "Immediate" -> AsU16(src.data)
      [] OTHER -> 0

\* the value read from a source Location (first half of get_location);
\* -1 stands for the todo!() of a Memory source
source_value(regs, src) ==
    CASE src.t = "Register" ->
            LET d == decode_register(src.reg)
                reg == regs[d.idx]
            IN (CASE d.w = "High" -> Shr16(reg, 8)
                  [] d.w = "Low" -> And16(reg, 255)
                  [] d.w = "All" -> reg)
      [] src.t = "Immediate" -> AsU16(src.data)
      [] OTHER -> -1

\* Cpu::get_location(src, dest): (val, mov_to, w), or a panic (todo!() for a
\* Memory operand, unimplemented!() for an Immediate destination)
get_location(regs, src, dest) ==
    LET val == source_value(regs, src)
    IN IF val < 0 \/ dest.t # "Register"
       THEN [panic |-> TRUE, val |-> 0, idx |-> 0, w |-> "All"]
       ELSE LET d == decode_register(dest.reg)
            IN [panic |-> FALSE, val |-> val, idx |-> d.idx, w |-> d.w]

\* a panic (todo!(), unimplemented!(), arithmetic overflow) before any write
Panic ==
    /\ status' = "panic"
    /\ jumped' = FALSE
    /\ UNCHANGED cpuVars

\* the three flag values of Cpu::set_flags(result)
zero_flag(result) == result = 0

sign_flag(result) == And16(result, 32768) > 0

parity_flag(result) == count_ones(result) % 2 = 0

\* set_flags with the parity of the low byte only
set_flags_low_byte_parity(result) ==
    /\ zf' = zero_flag(result)
    /\ sf' = sign_flag(result)
    /\ pf' = parity_flag(And16(result, 255))

\* Cpu::set_flags(result)
set_flags(result) ==
    /\ zf' = zero_flag(result)
    /\ sf' = sign_flag(result)
    /\ pf' = parity_flag(result)

\* execute_mov that also sets the flags from the value moved
execute_mov_setting_flags(src, dest) ==
    LET loc == get_location(registers, src, dest)
        mov_to == registers[loc.idx]
        val_to_mov ==
            CASE loc.w = "High" -> Or16(Shl16(loc.val, 8), And16(mov_to, 255))
              [] loc.w = "Low" -> Or16(And16(loc.val, 255), And16(mov_to, 65280))
              [] loc.w = "All" -> loc.val
    IN IF loc.panic THEN Panic
       ELSE /\ registers' = [registers EXCEPT ![loc.idx] = val_to_mov]
            /\ set_flags(val_to_mov)
            /\ jumped' = FALSE
            /\ UNCHANGED <<of, instructions, status>>

\* execute_mov whose byte writes clear the other byte of the cell
execute_mov_clearing_cell(src, dest) ==
    LET loc == get_location(registers, src, dest)
        val_to_mov ==
            CASE loc.w = "High" -> Shl16(loc.val, 8)
              [] loc.w = "Low" -> And16(loc.val, 255)
              [] loc.w = "All" -> loc.val
    IN IF loc.panic THEN Panic
       ELSE /\ registers' = [registers EXCEPT ![loc.idx] = val_to_mov]
            /\ jumped' = FALSE
            /\ UNCHANGED <<zf, sf, pf, of, instructions, status>>

\* Cpu::execute_mov(src, dest)
execute_mov(src, dest) ==
    LET loc == get_location(registers, src, dest)
        mov_to == registers[loc.idx]
        val_to_mov ==
            CASE loc.w = "High" -> Or16(Shl16(loc.val, 8), And16(mov_to, 255))
              [] loc.w = "Low" -> Or16(And16(loc.val, 255), And16(mov_to, 65280))
              [] loc.w = "All" -> loc.val
    IN IF loc.panic THEN Panic
       ELSE /\ registers' = [registers EXCEPT ![loc.idx] = val_to_mov]
            /\ jumped' = FALSE
            /\ UNCHANGED <<zf, sf, pf, of, instructions, status>>

\* Cpu::execute_add(src, dest). `+` on u16: a sum over 0xFFFF panics in a
\* build with overflow checks (debug) and wraps in one without (release),
\* so both outcomes are possible; OF is compared after *to was written
execute_add(src, dest) ==
    LET loc == get_location(registers, src, dest)
        to == registers[loc.idx]
        sum == IF loc.w = "High"
               THEN Shl16(loc.val, 8) + And16(to, 255)
               ELSE loc.val + to
        result == sum % U16
        to_written == result
    IN IF loc.panic THEN Panic
       ELSE \/ /\ sum >= U16
               /\ Panic
            \/ /\ registers' = [registers EXCEPT ![loc.idx] = result]
               /\ of' = (result < to_written)
               /\ set_flags(result)
               /\ jumped' = FALSE
               /\ UNCHANGED <<instructions, status>>

\* the subtraction of execute_sub in the register file regs, for the
\* operands loc found by get_location: the (result, overflowed) pair
sub_of(regs, loc) ==
    IF loc.w = "High"
    THEN overflowing_sub(regs[loc.idx], Shl16(loc.val, 8))
    ELSE overflowing_sub(regs[loc.idx], loc.val)

\* what execute_sub does to the register file regs: the cell it writes, the
\* result and the overflow flag, or a panic
sub_outcome(regs, src, dest) ==
    [panic |-> get_location(regs, src, dest).panic,
     idx |-> get_location(regs, src, dest).idx,
     result |-> sub_of(regs, get_location(regs, src, dest)).result,
     of |-> sub_of(regs, get_location(regs, src, dest)).overflowed]

\* the flags execute_sub leaves: OF from the borrow, the rest by set_flags
sub_flags(o) ==
    [zf |-> zero_flag(o.result), sf |-> sign_flag(o.result),
     pf |-> parity_flag(o.result), of |-> o.of]

\* execute_sub with OF taken from the sign of the result instead of the borrow
execute_sub_sign_overflow(src, dest) ==
    LET o == sub_outcome(registers, src, dest)
    IN IF o.panic THEN Panic
       ELSE /\ registers' = [registers EXCEPT ![o.idx] = o.result]
            /\ of' = sign_flag(o.result)
            /\ set_flags(o.result)
            /\ jumped' = FALSE
            /\ UNCHANGED <<instructions, status>>

\* Cpu::execute_sub(src, dest)
execute_sub(src, dest) ==
    LET o == sub_outcome(registers, src, dest)
    IN IF o.panic THEN Panic
       ELSE /\ registers' = [registers EXCEPT ![o.idx] = o.result]
            /\ of' = o.of
            /\ set_flags(o.result)
            /\ jumped' = FALSE
            /\ UNCHANGED <<instructions, status>>

\* execute_cmp comparing the source against the destination (operands swapped)
execute_cmp_swapped(src, dest) ==
    LET loc == get_location(registers, src, dest)
        to == registers[loc.idx]
        r == IF loc.w = "High"
             THEN overflowing_sub(Shl16(loc.val, 8), to)
             ELSE overflowing_sub(loc.val, to)
    IN IF loc.panic THEN Panic
       ELSE /\ of' = r.overflowed
            /\ set_flags(r.result)
            /\ jumped' = FALSE
            /\ UNCHANGED <<registers, instructions, status>>

\* Cpu::execute_cmp(src, dest)
execute_cmp(src, dest) ==
    LET loc == get_location(registers, src, dest)
        to == registers[loc.idx]
        r == IF loc.w = "High"
             THEN overflowing_sub(to, Shl16(loc.val, 8))
             ELSE overflowing_sub(to, loc.val)
    IN IF loc.panic THEN Panic
       ELSE /\ of' = r.overflowed
            /\ set_flags(r.result)
            /\ jumped' = FALSE
            /\ UNCHANGED <<registers, instructions, status>>

\* jump_if measuring the offset from the first byte of the jump instruction
jump_if_from_start(should_jump, offset) ==
    /\ jumped' = should_jump
    /\ IF should_jump
       THEN /\ instructions' = jump(instructions, offset - 2).c
            /\ status' = IF jump(instructions, offset - 2).st = "ok" THEN status ELSE "panic"
       ELSE UNCHANGED <<instructions, status>>

\* the if should_jump { self.instructions.jump(offset) } of execute_jump; a
\* failed seek is a fatal error
jump_if(should_jump, offset) ==
    LET j == jump(instructions, offset)
    IN /\ jumped' = should_jump
       /\ IF should_jump
          THEN /\ instructions' = j.c
               /\ status' = IF j.st = "ok" THEN status ELSE "panic"
          ELSE UNCHANGED <<instructions, status>>

\* execute_jump with jb taken on SF instead of OF
execute_jump_jb_on_sign(ty, offset) ==
    CASE ty = "Je" -> jump_if(zf, offset) /\ UNCHANGED <<registers, zf, sf, pf, of>>
      [] ty = "Jb" -> jump_if(sf, offset) /\ UNCHANGED <<registers, zf, sf, pf, of>>
      [] ty = "Jp" -> jump_if(pf, offset) /\ UNCHANGED <<registers, zf, sf, pf, of>>
      [] ty = "Jne" -> jump_if(~zf, offset) /\ UNCHANGED <<registers, zf, sf, pf, of>>
      [] ty = "Loopnz" ->
            LET cx == overflowing_sub(registers[2], 1).result
            IN /\ registers' = [registers EXCEPT ![2] = cx]
               /\ zf' = (cx = 0)
               /\ jump_if(~(cx = 0), offset)
               /\ UNCHANGED <<sf, pf, of>>
      [] OTHER -> Panic

\* execute_jump whose loopnz branches on the ZF it found, not the one it set
execute_jump_loopnz_on_old_zf(ty, offset) ==
    CASE ty = "Je" -> jump_if(zf, offset) /\ UNCHANGED <<registers, zf, sf, pf, of>>
      [] ty = "Jb" -> jump_if(of, offset) /\ UNCHANGED <<registers, zf, sf, pf, of>>
      [] ty = "Jp" -> jump_if(pf, offset) /\ UNCHANGED <<registers, zf, sf, pf, of>>
      [] ty = "Jne" -> jump_if(~zf, offset) /\ UNCHANGED <<registers, zf, sf, pf, of>>
      [] ty = "Loopnz" ->
            LET cx == overflowing_sub(registers[2], 1).result
            IN /\ registers' = [registers EXCEPT ![2] = cx]
               /\ zf' = (cx = 0)
               /\ jump_if(~zf, offset)
               /\ UNCHANGED <<sf, pf, of>>
      [] OTHER -> Panic

\* Cpu::execute_jump(ty, offset)
execute_jump(ty, offset) ==
    CASE ty = "Je" -> jump_if(zf, offset) /\ UNCHANGED <<registers, zf, sf, pf, of>>
      [] ty = "Jb" -> jump_if(of, offset) /\ UNCHANGED <<registers, zf, sf, pf, of>>
      [] ty = "Jp" -> jump_if(pf, offset) /\ UNCHANGED <<registers, zf, sf, pf, of>>
      [] ty = "Jne" -> jump_if(~zf, offset) /\ UNCHANGED <<registers, zf, sf, pf, of>>
      [] ty = "Loopnz" ->
            LET cx == overflowing_sub(registers[2], 1).result
            IN /\ registers' = [registers EXCEPT ![2] = cx]
               /\ zf' = (cx = 0)
               /\ jump_if(~(cx = 0), offset)
               /\ UNCHANGED <<sf, pf, of>>
      [] OTHER -> Panic

\* Cpu::execute_instruction(instruction)
execute_instruction(instruction) ==
    CASE instruction.op = "Mov" -> execute_mov(instruction.src, instruction.dst)
      [] instruction.op = "Add" -> execute_add(instruction.src, instruction.dst)
      [] instruction.op = "Sub" -> execute_sub(instruction.src, instruction.dst)
      [] instruction.op = "Cmp" -> execute_cmp(instruction.src, instruction.dst)
      [] instruction.op = "Jump" -> execute_jump(instruction.ty, instruction.offset)
      [] OTHER -> Panic

\* history: the instruction just executed, where it began in the stream, and
\* the registers, flags and read position it started from
Executed(instruction, start) ==
    trace' = Append(trace,
        [instr |-> instruction, start |-> start,
         registers |-> registers, zf |-> zf, sf |-> sf, pf |-> pf, of |-> of,
         pos |-> position(instructions),
         jumped |-> jumped', panicked |-> (status' = "panic")])

----------------------------------------------------------------------------
(* Specification Spec: execute_instruction on one instruction *)

\* small values 0..MaxSmall join the boundary values of the 16-bit range
MaxSmall == 2

Vals == (0 .. MaxSmall) \cup {255, 256, 4660, 32767, 32768, 65535}

\* the i16 data of Immediate operands: the values of Vals as i16
ImmData == {AsI16(v) : v \in Vals}

\* register files the public API reaches by Mov of immediates: ax is drawn
\* from Vals, every other cell holds a value of its own
RegisterFile(a) ==
    [i \in 0 .. 10 |->
        CASE i = 0 -> a
          [] i = 1 -> 4660
          [] i = 2 -> 1
          [] i = 3 -> 33023
          [] OTHER -> 257 * i]

SrcLocations ==
    {LocRegister(r) : r \in Register}
        \cup {LocImmediate(d, -1) : d \in ImmData}
        \cup {LocMemory("BX", "SI", 0)}

DstLocations ==
    {LocRegister(r) : r \in Register}
        \cup {LocImmediate(1, -1), LocMemory("None", "None", 16)}

JumpOffsets == {-3, -2, 0, 1, 127}

Instructions ==
    {Binary(o, s, d) : o \in {"Mov", "Add", "Sub", "Cmp"}, s \in SrcLocations, d \in DstLocations}
        \cup {Binary(o, LocRegister("BX"), LocRegister("AX")) : o \in {"Adc", "Sbb"}}
        \cup {Jump(k, off) : k \in JumpType, off \in JumpOffsets}
        \cup {Unary(o, LocRegister("AX")) : o \in {"Inc", "Dec"}}
        \cup {Nullary("Daa"), Nullary("Aaa")}

NoFetch == [instr |-> Nullary("None"), start |-> -1]

\* Cpu::new over a source, advanced to the state any register file, flag
\* state and read position stand for: the decoder has read its first
\* instruction (two bytes)
Init ==
    /\ source = <<116, 0, 137, 217>>
    /\ chunk = BufSize
    /\ read_error_at = NoReadError
    /\ registers \in {RegisterFile(a) : a \in Vals}
    /\ zf \in BOOLEAN /\ sf \in BOOLEAN /\ pf \in BOOLEAN /\ of \in BOOLEAN
    /\ instructions = next_op(Codec_new).c
    /\ status = "running"
    /\ fetched = NoFetch
    /\ jumped = FALSE
    /\ trace = <<>>

\* one call of the public Cpu::execute_instruction
Execute ==
    /\ status = "running"
    /\ trace = <<>>
    /\ \E instruction \in Instructions :
            /\ execute_instruction(instruction)
            /\ Executed(instruction, -1)
            /\ UNCHANGED <<source, chunk, read_error_at, fetched>>

Next == Execute

Spec == Init /\ [][Next]_vars

----------------------------------------------------------------------------
(* Specification SpecRun: Cpu::run on a byte program *)

\* the largest loop count of the loopnz programs
MaxN == 3

\* run is followed for at most this many executed instructions
MaxRunSteps == 8

\* mov cx, n; label: loopnz label
LoopnzProgram(n) == <<185, n % 256, n \div 256, 224, 254>>

\* mov ax, v; mov ah, 0x12; mov al, 0x34   and with the byte moves swapped
AliasProgram(v, high_first) ==
    <<184, v % 256, v \div 256>>
        \o (IF high_first THEN <<180, 18, 176, 52>> ELSE <<176, 52, 180, 18>>)

\* mov ax, v; mov bx, 0xABCD; mov ah, bl; mov al, bh
ByteMovProgram(v) == <<184, v % 256, v \div 256, 187, 205, 171, 136, 220, 136, 248>>

JumpPrograms ==
    { \* sub ax, ax; je +2; mov cl, 5; mov ch, 7
      <<41, 192, 116, 2, 177, 5, 181, 7>>,
      \* mov cx, 2; l: sub cx, 1; jne l; mov bx, cx
      <<185, 2, 0, 131, 233, 1, 117, 251, 137, 203>>,
      \* sub ax, 1; jb +3; mov cx, 4660 (skipped); jne +0
      <<131, 232, 1, 114, 3, 185, 52, 18, 117, 0>>,
      \* je +2 (not taken); sub bx, bx; jp +1; daa (skipped); mov dl, 9
      <<116, 2, 41, 219, 122, 1, 39, 178, 9>>,
      \* sub ax, ax; je +9 (past the end of the stream)
      <<41, 192, 116, 9, 177, 5>>,
      \* sub ax, ax; je -5 (before the start of the stream)
      <<41, 192, 116, 251>>,
      \* mov si, di; cmp cx, cx; jne -6 (not taken)
      <<137, 254, 57, 201, 117, 250>>,
      \* sub ax, ax; je +4; a: mov cl, 5; jne +5 (to the end); add ax, 1; jne a
      <<41, 192, 116, 4, 177, 5, 117, 5, 131, 192, 1, 117, 247>> }

Programs ==
    {LoopnzProgram(n) : n \in 1 .. MaxN}
        \cup {AliasProgram(v, h) : v \in Vals, h \in BOOLEAN}
        \cup {ByteMovProgram(v) : v \in Vals}
        \cup JumpPrograms

\* sizes of the reads the source delivers: byte by byte, in small pieces, or
\* as much as the buffer holds
ChunkSizes == {1, 3, BufSize}

\* Cpu::new(source)
InitRun ==
    /\ source \in Programs
    /\ chunk \in ChunkSizes
    /\ registers = [i \in 0 .. 10 |-> 0]
    /\ zf = FALSE /\ sf = FALSE /\ pf = FALSE /\ of = FALSE
    /\ instructions = Codec_new
    /\ read_error_at = NoReadError
    /\ status = "running"
    /\ fetched = NoFetch
    /\ jumped = FALSE
    /\ trace = <<>>

\* the outcome r of next_op: Some(instruction) is bound for the loop body,
\* None ends run, a panic of the decoder is fatal
Fetched(r) ==
    /\ instructions' = r.c
    /\ fetched' = IF r.st = "ok"
                  THEN [instr |-> r.v, start |-> position(instructions)]
                  ELSE NoFetch
    /\ status' = CASE r.st = "ok" -> "running"
                    [] r.st = "none" -> "done"
                    [] OTHER -> "panic"

\* run: `while let Some(instruction) = self.instructions.next_op()`
Fetch ==
    /\ status = "running"
    /\ fetched = NoFetch
    /\ Len(trace) < MaxRunSteps
    /\ Fetched(next_op(instructions))
    /\ UNCHANGED <<registers, zf, sf, pf, of, source, chunk, read_error_at, jumped, trace>>

\* the loop body dropping the instruction instead of executing it
ExecuteFetched_dropping ==
    /\ status = "running"
    /\ fetched # NoFetch
    /\ fetched' = NoFetch
    /\ UNCHANGED <<registers, zf, sf, pf, of, instructions, source, chunk, read_error_at, status, jumped, trace>>

\* run: the loop body, self.execute_instruction(instruction)
ExecuteFetched ==
    /\ status = "running"
    /\ fetched # NoFetch
    /\ execute_instruction(fetched.instr)
    /\ Executed(fetched.instr, fetched.start)
    /\ fetched' = NoFetch
    /\ UNCHANGED <<source, chunk, read_error_at>>

NextRun == Fetch \/ ExecuteFetched

SpecRun == InitRun /\ [][NextRun]_vars

\* NextRun can take a step: the guards of Fetch and of ExecuteFetched, whose
\* bodies are total
CanStep == status = "running" /\ (fetched # NoFetch \/ Len(trace) < MaxRunSteps)

\* run is a sequential loop: while it can fetch or execute, it does. This
\* is weak fairness of NextRun, written with CanStep for its enabling
\* condition
SpecRunFair == SpecRun /\ ([]<>(~CanStep) \/ []<><<NextRun>>_vars)

----------------------------------------------------------------------------
(* The register file as documented on Cpu.registers, and the reading of    *)
(* operands the properties below are stated with                           *)

\* cell i of the register file is the i-th of ax, bx, cx, dx, sp, bp, si,
\* di, ss, ds, es
WordCell ==
    [r \in {"AX", "BX", "CX", "DX", "SP", "BP", "SI", "DI", "SS", "DS", "ES"} |->
        CASE r = "AX" -> 0 [] r = "BX" -> 1 [] r = "CX" -> 2 [] r = "DX" -> 3
          [] r = "SP" -> 4 [] r = "BP" -> 5 [] r = "SI" -> 6 [] r = "DI" -> 7
          [] r = "SS" -> 8 [] r = "DS" -> 9 [] r = "ES" -> 10]

\* the cell owning a byte register
LowCell ==
    [r \in {"AL", "BL", "CL", "DL"} |->
        CASE r = "AL" -> 0 [] r = "BL" -> 1 [] r = "CL" -> 2 [] r = "DL" -> 3]

HighCell ==
    [r \in {"AH", "BH", "CH", "DH"} |->
        CASE r = "AH" -> 0 [] r = "BH" -> 1 [] r = "CH" -> 2 [] r = "DH" -> 3]

OwningCell(r) ==
    IF r \in DOMAIN WordCell THEN WordCell[r]
    ELSE IF r \in DOMAIN LowCell THEN LowCell[r] ELSE HighCell[r]

\* the value of a register or immediate operand in the register file regs
OperandValue(regs, l) ==
    IF l.t = "Immediate" THEN l.data % 65536
    ELSE IF l.reg \in DOMAIN WordCell THEN regs[WordCell[l.reg]]
    ELSE IF l.reg \in DOMAIN LowCell THEN regs[LowCell[l.reg]] % 256
    ELSE regs[HighCell[l.reg]] \div 256

\* the number of 1 bits among the 16 bits of x
PopCount(x) == Cardinality({k \in 0 .. 15 : (x \div (2 ^ k)) % 2 = 1})

\* the last executed instruction with the state it started from
Last == trace[Len(trace)]

\* an instruction with register or immediate source and register destination
OnRegisters(i) ==
    /\ i.src.t \in {"Register", "Immediate"}
    /\ i.dst.t = "Register"

OnWordRegister(i) == OnRegisters(i) /\ i.dst.reg \in DOMAIN WordCell

----------------------------------------------------------------------------
(* Properties of execute_instruction (specification Spec) *)

\* C1: Sub(src, dst) on a 16-bit register destination holding a with source
\* value b completes, leaves (a - b) mod 2^16 in dst and sets OF exactly
\* when b > a; equal inputs give ZF, not SF, PF, not OF; a = 1, b = 2 gives
\* SF, OF, not ZF
C1_SubWord ==
    (trace # <<>> /\ Last.instr.op = "Sub" /\ OnWordRegister(Last.instr)) =>
        LET a == Last.registers[WordCell[Last.instr.dst.reg]]
            b == OperandValue(Last.registers, Last.instr.src)
        IN /\ ~Last.panicked
           /\ registers[WordCell[Last.instr.dst.reg]] = (a - b) % 65536
           /\ of = (b > a)
           /\ (a = b => zf /\ ~sf /\ pf /\ ~of)
           /\ (a = 1 /\ b = 2 => sf /\ of /\ ~zf)

\* sub ax, 2 with ax = 1 has run: ax = 0xFFFF with a borrow
C1_Witness ==
    /\ trace # <<>>
    /\ Last.instr = Binary("Sub", LocImmediate(2, -1), LocRegister("AX"))
    /\ Last.registers[0] = 1
    /\ registers[0] = 65535
    /\ of

\* C2: Cmp(src, dst) with a register or immediate source and a register
\* destination leaves all eleven cells unchanged, and leaves ZF, SF, PF, OF
\* with the values Sub(src, dst) produces from the same state
C2_CmpLikeSub ==
    (trace # <<>> /\ Last.instr.op = "Cmp" /\ OnRegisters(Last.instr)) =>
        /\ ~Last.panicked
        /\ registers = Last.registers
        /\ ~sub_outcome(Last.registers, Last.instr.src, Last.instr.dst).panic
        /\ [zf |-> zf, sf |-> sf, pf |-> pf, of |-> of]
                = sub_flags(sub_outcome(Last.registers, Last.instr.src, Last.instr.dst))

\* cmp ax, 2 with ax = 1 has run: ax is still 1, and SF and OF are set as
\* by the subtraction
C2_Witness ==
    /\ trace # <<>>
    /\ Last.instr = Binary("Cmp", LocImmediate(2, -1), LocRegister("AX"))
    /\ Last.registers[0] = 1
    /\ registers[0] = 1
    /\ sf /\ of /\ ~zf

\* C3: Add(src, dst) on a 16-bit register destination holding a with source
\* value b always completes and leaves (a + b) mod 2^16 in dst, also when
\* a + b exceeds 65535
C3_AddWordWraps ==
    (trace # <<>> /\ Last.instr.op = "Add" /\ OnWordRegister(Last.instr)) =>
        /\ ~Last.panicked
        /\ registers[WordCell[Last.instr.dst.reg]]
                = (Last.registers[WordCell[Last.instr.dst.reg]]
                        + OperandValue(Last.registers, Last.instr.src)) % 65536

\* C4: after a completed Add(src, dst), OF holds exactly when the 16-bit
\* result left in the destination's cell is below the value the cell held
\* before the instruction
C4_AddOverflowAgainstPriorDst ==
    (trace # <<>> /\ Last.instr.op = "Add" /\ OnRegisters(Last.instr) /\ ~Last.panicked) =>
        of = (registers[OwningCell(Last.instr.dst.reg)]
                < Last.registers[OwningCell(Last.instr.dst.reg)])

\* the 16-bit result R of a completed Add, Sub or Cmp: what Add and Sub
\* left in the destination's cell, and for Cmp what Sub would leave there
ArithmeticResult ==
    IF Last.instr.op = "Cmp"
    THEN sub_outcome(Last.registers, Last.instr.src, Last.instr.dst).result
    ELSE registers[OwningCell(Last.instr.dst.reg)]

\* C5: after every completed Add, Sub or Cmp with 16-bit result R,
\* ZF = (R = 0), SF = (bit 15 of R) and PF = (R has an even number of 1
\* bits among all 16)
C5_FlagsOfResult ==
    (/\ trace # <<>>
     /\ Last.instr.op \in {"Add", "Sub", "Cmp"}
     /\ OnRegisters(Last.instr)
     /\ ~Last.panicked) =>
        /\ zf = (ArithmeticResult = 0)
        /\ sf = (ArithmeticResult \div 32768 = 1)
        /\ pf = (PopCount(ArithmeticResult) % 2 = 0)

\* sub ax, 0 with ax = 0x0100 has run: R = 0x0100 has one 1 bit, in its
\* high byte, so PF is clear
C5_Witness ==
    /\ trace # <<>>
    /\ Last.instr = Binary("Sub", LocImmediate(0, -1), LocRegister("AX"))
    /\ Last.registers[0] = 256
    /\ registers[0] = 256
    /\ ~zf /\ ~sf /\ ~pf

\* C7: Mov(src, dst) with a register destination leaves ZF, SF, PF, OF
\* unchanged and leaves every cell but the destination's owning cell
\* unchanged
C7_MovFrame ==
    (trace # <<>> /\ Last.instr.op = "Mov" /\ Last.instr.dst.t = "Register") =>
        /\ <<zf, sf, pf, of>> = <<Last.zf, Last.sf, Last.pf, Last.of>>
        /\ \A i \in 0 .. 10 :
                i # OwningCell(Last.instr.dst.reg) => registers[i] = Last.registers[i]

\* mov bh, al with ax = 0x00FF and bx = 0x1234 has run: bx = 0xFF34
C7_Witness ==
    /\ trace # <<>>
    /\ Last.instr = Binary("Mov", LocRegister("AL"), LocRegister("BH"))
    /\ Last.registers[0] = 255
    /\ registers[1] = 65332
    /\ ~Last.panicked

\* the flag a conditional jump tests, in the flags the instruction found
JumpCondition ==
    CASE Last.instr.ty = "Je" -> Last.zf
      [] Last.instr.ty = "Jne" -> ~Last.zf
      [] Last.instr.ty = "Jp" -> Last.pf
      [] Last.instr.ty = "Jb" -> Last.of

\* C8: Jump(kind, disp) for je, jne, jp, jb repositions the decoder by disp
\* exactly when ZF, not ZF, PF, OF holds (a target before the start of the
\* stream is a failed seek, which is fatal); when the condition is false
\* the read position is unchanged; registers and flags are unchanged
C8_ConditionalJump ==
    (/\ trace # <<>>
     /\ Last.instr.op = "Jump"
     /\ Last.instr.ty \in {"Je", "Jne", "Jp", "Jb"}) =>
        /\ Last.jumped = JumpCondition
        /\ Last.panicked => (JumpCondition /\ Last.pos + Last.instr.offset < 0)
        /\ ~Last.panicked =>
                position(instructions)
                    = IF JumpCondition THEN Last.pos + Last.instr.offset ELSE Last.pos
        /\ registers = Last.registers
        /\ <<zf, sf, pf, of>> = <<Last.zf, Last.sf, Last.pf, Last.of>>

\* jb -2 with OF set and ZF, SF, PF clear has run from position 2: the read
\* position is 0
C8_Witness ==
    /\ trace # <<>>
    /\ Last.instr = Jump("Jb", -2)
    /\ Last.of /\ ~Last.zf /\ ~Last.sf /\ ~Last.pf
    /\ Last.pos = 2
    /\ Last.jumped
    /\ position(instructions) = 0

----------------------------------------------------------------------------
(* Properties of run (specifications SpecRun and SpecRunFair) *)

\* the registers and ZF the i-th executed instruction left
PostRegisters(i) == IF i < Len(trace) THEN trace[i + 1].registers ELSE registers

PostZf(i) == IF i < Len(trace) THEN trace[i + 1].zf ELSE zf

\* the i-th executed instruction was a completed Mov into byte register r
MovedInto(i, rs) ==
    /\ trace[i].instr.op = "Mov"
    /\ OnRegisters(trace[i].instr)
    /\ trace[i].instr.dst.reg \in rs
    /\ ~trace[i].panicked

\* the i-th executed instruction was Mov of the immediate d into register r
MovImmediate(i, d, r) ==
    /\ trace[i].instr.op = "Mov"
    /\ trace[i].instr.src.t = "Immediate"
    /\ trace[i].instr.src.data = d
    /\ trace[i].instr.dst = LocRegister(r)

\* C6: Mov to ah, bh, ch, dh replaces only the high byte of the owning cell
\* with the low 8 bits of the source value, Mov to al, bl, cl, dl only the
\* low byte; after mov ah, 0x12 and mov al, 0x34, in either order, ax is
\* 0x1234 whatever it held
C6_ByteMov ==
    \A i \in 1 .. Len(trace) :
        /\ MovedInto(i, DOMAIN HighCell) =>
                PostRegisters(i) =
                    [trace[i].registers EXCEPT ![HighCell[trace[i].instr.dst.reg]] =
                        (OperandValue(trace[i].registers, trace[i].instr.src) % 256) * 256
                            + (@ % 256)]
        /\ MovedInto(i, DOMAIN LowCell) =>
                PostRegisters(i) =
                    [trace[i].registers EXCEPT ![LowCell[trace[i].instr.dst.reg]] =
                        (@ \div 256) * 256
                            + (OperandValue(trace[i].registers, trace[i].instr.src) % 256)]
        /\ (/\ i < Len(trace)
            /\ \/ MovImmediate(i, 18, "AH") /\ MovImmediate(i + 1, 52, "AL")
               \/ MovImmediate(i, 52, "AL") /\ MovImmediate(i + 1, 18, "AH")) =>
                PostRegisters(i + 1)[0] = 4660

\* mov ax, 0xFFFF; mov ah, 0x12; mov al, 0x34 has run to its end: ax = 0x1234
C6_Witness ==
    /\ source = AliasProgram(65535, TRUE)
    /\ status = "done"
    /\ Len(trace) = 3
    /\ trace[2].registers[0] = 65535
    /\ MovImmediate(2, 18, "AH")
    /\ MovImmediate(3, 52, "AL")
    /\ registers[0] = 4660

\* the decoding of the stream from byte position k
DecodeAt(k) == next_op([Codec_new EXCEPT !.pos = k])

\* the i-th executed instruction was a jump that was taken
TakenJump(i) ==
    /\ trace[i].instr.op = "Jump"
    /\ trace[i].jumped
    /\ ~trace[i].panicked

\* C9: after a taken jump with offset d, the next instruction decoded and
\* executed is the one beginning at byte p + d of the stream, p being the
\* position right after the two bytes of the jump, for d of either sign
C9_TakenJumpTarget ==
    \A i \in 1 .. Len(trace) :
        TakenJump(i) =>
            /\ trace[i].pos = trace[i].start + 2
            /\ i < Len(trace) =>
                    /\ trace[i + 1].start = trace[i].pos + trace[i].instr.offset
                    /\ trace[i + 1].instr = DecodeAt(trace[i + 1].start).v
            /\ (i = Len(trace) /\ fetched # NoFetch) =>
                    /\ fetched.start = trace[i].pos + trace[i].instr.offset
                    /\ fetched.instr = DecodeAt(fetched.start).v
            /\ (i = Len(trace) /\ fetched = NoFetch /\ status = "running") =>
                    position(instructions) = trace[i].pos + trace[i].instr.offset

\* je +4 at byte 2 was taken to the add at byte 8, and jne -9 at byte 11
\* was taken to the mov at byte 4, which has been executed
C9_Witness ==
    /\ Len(trace) >= 5
    /\ trace[2].instr = Jump("Je", 4) /\ trace[2].start = 2 /\ trace[2].jumped
    /\ trace[3].instr.op = "Add" /\ trace[3].start = 8
    /\ trace[4].instr = Jump("Jne", -9) /\ trace[4].start = 11 /\ trace[4].jumped
    /\ trace[5].instr.op = "Mov" /\ trace[5].start = 4

\* the program is mov cx, n; l: loopnz l, with n in its second and third byte
IsLoopnzProgram == \E n \in 1 .. MaxN : source = LoopnzProgram(n)

LoopnzN == source[2] + 256 * source[3]

IsLoopnz(i) == trace[i].instr.op = "Jump" /\ trace[i].instr.ty = "Loopnz"

LoopnzCount == Cardinality({i \in 1 .. Len(trace) : IsLoopnz(i)})

\* every loopnz executed so far decremented CX, set ZF := (CX = 0) and
\* branched exactly when ZF was false; there were at most n of them, and
\* run has ended only after n of them, with cx = 0 and ZF set
LoopnzSteps ==
    IsLoopnzProgram =>
        /\ status # "panic"
        /\ LoopnzCount <= LoopnzN
        /\ \A i \in 1 .. Len(trace) :
                IsLoopnz(i) =>
                    /\ PostRegisters(i)[2] = (trace[i].registers[2] - 1) % 65536
                    /\ PostZf(i) = (PostRegisters(i)[2] = 0)
                    /\ trace[i].jumped = ~PostZf(i)
        /\ status = "done" => (LoopnzCount = LoopnzN /\ registers[2] = 0 /\ zf)

\* C10: running mov cx, n; l: loopnz l for n >= 1 executes the loopnz
\* exactly n times and then run terminates with cx = 0 and ZF set; each
\* loopnz decrements CX, sets ZF := (CX = 0) and branches exactly when ZF
\* is false
C10_LoopnzRun == [] LoopnzSteps /\ (IsLoopnzProgram ~> status = "done")

\* mov cx, 3; l: loopnz l has ended after three executions of the loopnz
C10_Witness ==
    /\ source = LoopnzProgram(3)
    /\ status = "done"
    /\ LoopnzCount = 3
    /\ Len(trace) = 4
    /\ registers[2] = 0
    /\ zf

\* no instruction executed so far took a jump or panicked
StraightSoFar == \A i \in 1 .. Len(trace) : ~trace[i].jumped /\ ~trace[i].panicked

\* the read position after the last executed instruction
ExecutedUpTo == IF trace = <<>> THEN 0 ELSE Last.pos

\* the executed instructions are the instructions of the stream from its
\* first byte on, one after the other, each once; the fetched one is the
\* next; run has returned only with the whole stream executed
InStreamOrder ==
    /\ \A i \in 1 .. Len(trace) :
            /\ trace[i].start = IF i = 1 THEN 0 ELSE trace[i - 1].pos
            /\ trace[i].pos > trace[i].start
            /\ trace[i].instr = DecodeAt(trace[i].start).v
    /\ fetched # NoFetch => fetched.start = ExecutedUpTo
    /\ status = "done" => (fetched = NoFetch /\ ExecutedUpTo = Len(source))

\* C11: on a program of supported instructions with no taken jump, run
\* executes each decoded instruction exactly once, in the order of the
\* byte stream, and returns when the decoder signals the end of the stream
C11_RunInOrder ==
    [] (StraightSoFar => InStreamOrder)
        /\ <> (status \in {"done", "panic"} \/ ~StraightSoFar)

\* mov ax, 0x00FF; mov bx, 0xABCD; mov ah, bl; mov al, bh, read three bytes
\* at a time, has run to its end: four instructions, the last from byte 8
C11_Witness ==
    /\ source = ByteMovProgram(255)
    /\ chunk = 3
    /\ status = "done"
    /\ Len(trace) = 4
    /\ trace[4].start = 8
    /\ registers[0] = 52651

----------------------------------------------------------------------------
(* Specification SpecDecode: Codec::next_opcode called repeatedly on a byte *)
(* stream, as InstructionIterator::next does. Here trace is the history of *)
(* the calls: the outcome of each, with the read position before and after *)

\* next_opcode is followed for at most this many calls
MaxDecodes == 3

Byte == 0 .. 255

\* the bytes get_byte has handed out so far: what the source delivered less
\* what is still in buf
consumed(c) == c.pos - (c.len - c.cur_byte)

\* the fields of the first and second byte
HighNibble(b1) == b1 \div 16

Mod(b2) == b2 \div 64

RegField(b2) == (b2 \div 8) % 8

RM(b2) == b2 % 8

\* the first bytes next_opcode matches exactly: 20 short jumps, aaa, daa
ExactOpcodes ==
    {116, 124, 126, 114, 118, 122, 112, 120, 117, 125, 127, 115, 119, 123, 113,
     121, 226, 225, 224, 227, 55, 39}

ShortJumpOpcodes == ExactOpcodes \ {55, 39}

\* the forms with a mod/reg/r-m byte: register/memory MOV and arithmetic,
\* immediate to register/memory MOV and arithmetic
HasModRM(b1) ==
    /\ b1 \notin ExactOpcodes
    /\ \/ HighNibble(b1) \in {8, 12}
       \/ HighNibble(b1) \in {0, 2, 3} /\ (b1 \div 4) % 2 = 0

\* what follows the first two bytes of the streams
Rest == <<209, 254, 52, 18>>

\* second bytes tried after a first byte whose form has no mod/reg/r-m byte
FewSecond == {0, 217}

\* every first byte; every second byte where it is a mod/reg/r-m byte
FormSources ==
    {<<b[1], b[2]>> \o Rest : b \in {x \in Byte \X Byte : HasModRM(x[1]) \/ x[2] \in FewSecond}}

\* streams that end early: the first k bytes of the streams of a few second
\* bytes (mod 00, direct address, mod 01, mod 10, mod 11)
TruncatedSources ==
    {SubSeq(<<b1, b2>> \o Rest, 1, k) : b1 \in Byte, b2 \in {0, 6, 70, 134, 217}, k \in 0 .. 5}

\* the d bit of a register/memory first byte flipped; reg and r/m exchanged
FlipD(b1) == IF (b1 \div 2) % 2 = 1 THEN b1 - 2 ELSE b1 + 2

SwapRegRM(b2) == Mod(b2) * 64 + RM(b2) * 8 + RegField(b2)

\* a register-to-register MOV, the same bytes with d flipped, and with d
\* flipped and the reg and r/m fields exchanged
DirectionProgram(b1, b2) == <<b1, b2, FlipD(b1), b2, FlipD(b1), SwapRegRM(b2)>>

DirectionSources == {DirectionProgram(b1, b2) : b1 \in 136 .. 139, b2 \in 192 .. 255}

DecodeSources == FormSources \cup TruncatedSources \cup DirectionSources

\* Codec::new(source)
InitDecode ==
    /\ source \in DecodeSources
    /\ chunk \in ChunkSizes
    /\ registers = [i \in 0 .. 10 |-> 0]
    /\ zf = FALSE /\ sf = FALSE /\ pf = FALSE /\ of = FALSE
    /\ instructions = Codec_new
    /\ read_error_at = NoReadError
    /\ status = "running"
    /\ fetched = NoFetch
    /\ jumped = FALSE
    /\ trace = <<>>

\* the outcome r of one call that began at byte start: Some(instruction),
\* None (the iterator ends), or a panic
Decoded(r, start) ==
    /\ instructions' = r.c
    /\ status' = CASE r.st = "ok" -> "running"
                   [] r.st = "none" -> "done"
                   [] OTHER -> "panic"
    /\ trace' = Append(trace, [st |-> r.st, instr |-> r.v, start |-> start,
                               end |-> consumed(r.c)])

\* InstructionIterator::next: one call of next_opcode
Decode ==
    /\ status = "running"
    /\ Len(trace) < MaxDecodes
    /\ Decoded(next_opcode(instructions), consumed(instructions))
    /\ UNCHANGED <<registers, zf, sf, pf, of, source, chunk, read_error_at, fetched, jumped>>

NextDecode == Decode

SpecDecode == InitDecode /\ [][NextDecode]_vars

----------------------------------------------------------------------------
(* Properties of the decoder (specification SpecDecode) *)

\* the displacement bytes selected by mod and r/m
DispBytes(b2) ==
    IF Mod(b2) = 2 \/ (Mod(b2) = 0 /\ RM(b2) = 6) THEN 2
    ELSE IF Mod(b2) = 1 THEN 1 ELSE 0

\* the bytes by the w bit of a form: two for w = 1, one for w = 0
WidthBytes(w) == IF w = 1 THEN 2 ELSE 1

\* the offset, immediate or accumulator address bytes of the form of b1
DataBytes(b1) ==
    CASE b1 \in ShortJumpOpcodes -> 1
      [] b1 \in {55, 39} -> 0
      [] HighNibble(b1) = 11 -> WidthBytes((b1 \div 8) % 2)
      [] HighNibble(b1) = 12 -> WidthBytes(b1 % 2)
      [] HighNibble(b1) = 8 /\ b1 \div 4 = 32 -> WidthBytes(IF b1 % 4 = 1 THEN 1 ELSE 0)
      [] HighNibble(b1) = 10 -> WidthBytes(b1 % 2)
      [] HighNibble(b1) \in {0, 2, 3} /\ (b1 \div 4) % 2 = 1 -> WidthBytes(b1 % 2)
      [] OTHER -> 0

\* the length of the encoding that begins with b1, b2
EncodingLength(b1, b2) ==
    1 + (IF HasModRM(b1) THEN 1 + DispBytes(b2) ELSE 0) + DataBytes(b1)

\* the byte of the stream k bytes after byte position p (0 past the end)
ByteAt(p, k) == IF p + k + 1 <= Len(source) THEN source[p + k + 1] ELSE 0

\* the i-th call decoded an instruction
DecodedOk(i) == trace[i].st = "ok"

DecodedLength(i) == trace[i].end - trace[i].start

\* every decoded instruction took the bytes of its encoding and a length
\* among lengths; the next call began right after it
AdvancesByLength(lengths) ==
    \A i \in 1 .. Len(trace) :
        DecodedOk(i) =>
            /\ DecodedLength(i)
                    = EncodingLength(ByteAt(trace[i].start, 0), ByteAt(trace[i].start, 1))
            /\ DecodedLength(i) \in lengths
            /\ i < Len(trace) => trace[i + 1].start = trace[i].end

\* C12: each successful decode advances the read position by exactly the
\* length of the instruction's encoding (opcode, mod/reg/r-m byte if any,
\* displacement bytes by mod and r/m, immediate bytes by w), so the next
\* decode starts at the next instruction; the length is one of 1, 2, 3, 4, 6
C12_LengthNeverFive == AdvancesByLength({1, 2, 3, 4, 6})

\* C12, amended: as above, with the length one of 1, 2, 3, 4, 5, 6 (an
\* immediate to register/memory form with three bytes of displacement and
\* immediate together has five)
C12_DecodeAdvance == AdvancesByLength(1 .. 6)

\* C7 46 D1 FE 34: mov word [bp - 47], 0x34FE was decoded from five bytes
C12_Witness ==
    /\ source = <<199, 70>> \o Rest
    /\ chunk = 3
    /\ Len(trace) >= 1
    /\ DecodedOk(1)
    /\ trace[1].instr = Binary("Mov", LocImmediate(13566, 1), LocMemory("BP", "None", -47))
    /\ trace[1].end = 5

\* the high nibbles next_opcode dispatches on
KnownPrefixes == {0, 2, 3, 4, 8, 10, 11, 12}

\* the first byte of the i-th call
FirstByte(i) == ByteAt(trace[i].start, 0)

\* the i-th call began at the end of the stream
AtEnd(i) == trace[i].start = Len(source)

\* the i-th call began on the first byte of an instruction of a known form
\* whose bytes the stream does not hold to the last
Truncated(i) ==
    /\ trace[i].start < Len(source)
    /\ FirstByte(i) \in ExactOpcodes \/ HighNibble(FirstByte(i)) \in KnownPrefixes
    /\ trace[i].start + EncodingLength(FirstByte(i), ByteAt(trace[i].start, 1)) > Len(source)

\* C13: a stream that ends between two instructions gives the end-of-stream
\* signal without error; one that ends after the first byte of an
\* instruction and before its last (any form, a short jump without its
\* offset byte included) gives an error and not a clean end of stream
C13_TruncatedIsError ==
    \A i \in 1 .. Len(trace) :
        /\ AtEnd(i) => trace[i].st = "none"
        /\ Truncated(i) => trace[i].st = "panic"

\* C14: a first byte that is none of the 22 exact-match opcodes and whose
\* high nibble is none of 0x0, 0x2, 0x3, 0x4, 0x8, 0xA, 0xB, 0xC makes the
\* decoder fail: it returns no instruction and no end-of-stream signal
C14_UnknownPrefixFails ==
    \A i \in 1 .. Len(trace) :
        (/\ ~AtEnd(i)
         /\ FirstByte(i) \notin ExactOpcodes
         /\ HighNibble(FirstByte(i)) \notin KnownPrefixes) =>
            /\ trace[i].st = "panic"
            /\ status = "panic"

\* the stream 90 00 ...: the first call failed on 0x90 after one byte
C14_Witness ==
    /\ source = <<144, 0>> \o Rest
    /\ Len(trace) = 1
    /\ trace[1].st = "panic"
    /\ trace[1].end = 1
    /\ status = "panic"

\* the i-th call began on an arithmetic form: register/memory or immediate
\* to accumulator (00 fff 0dw, 00 fff 10w), or immediate to register/memory
\* (100000sw)
ArithmeticInFirstByte(i) == FirstByte(i) < 64 /\ FirstByte(i) % 8 <= 5

ArithmeticInSecondByte(i) == FirstByte(i) \div 4 = 32

\* the 3-bit field that selects the operation
ArithmeticField(i) ==
    IF ArithmeticInSecondByte(i)
    THEN RegField(ByteAt(trace[i].start, 1))
    ELSE (FirstByte(i) \div 8) % 8

ArithmeticName(f) ==
    CASE f = 0 -> "Add" [] f = 2 -> "Adc" [] f = 3 -> "Sbb" [] f = 5 -> "Sub" [] f = 7 -> "Cmp"

\* the stream holds the longest encoding from the start of the i-th call
WholeInstruction(i) == trace[i].start + 6 <= Len(source)

\* the arithmetic forms whose field is among fields decode to the
\* instruction variant of that field
SelectsArithmetic(fields) ==
    \A i \in 1 .. Len(trace) :
        (/\ WholeInstruction(i)
         /\ ArithmeticInFirstByte(i) \/ ArithmeticInSecondByte(i)
         /\ ArithmeticField(i) \in fields) =>
            /\ DecodedOk(i)
            /\ trace[i].instr.op = ArithmeticName(ArithmeticField(i))

\* C15: the arithmetic operation is selected by a 3-bit field (bits 5..3 of
\* b1, or the reg field of b2 for the 100000sw form): 000 decodes to Add,
\* 101 to Sub, 111 to Cmp, and 010 and 011 decode to Adc and Sbb rather
\* than failing
C15_ArithmeticSelect == SelectsArithmetic({0, 2, 3, 5, 7})

\* the REG table of the 8086: the register of a 3-bit code by the w bit
RegTable(code, w) ==
    IF w = 1
    THEN <<"AX", "CX", "DX", "BX", "SP", "BP", "SI", "DI">>[code + 1]
    ELSE <<"AL", "CL", "DL", "BL", "AH", "CH", "DH", "BH">>[code + 1]

\* the i-th call began on the register/memory family: MOV 100010dw, or
\* ADD, SUB, CMP 00 fff 0dw
RegisterMemoryMov(i) == FirstByte(i) \in 136 .. 139

RegisterMemoryFamily(i) ==
    \/ RegisterMemoryMov(i)
    \/ FirstByte(i) < 64 /\ FirstByte(i) % 8 <= 3 /\ (FirstByte(i) \div 8) % 8 \in {0, 5, 7}

SecondByte(i) == ByteAt(trace[i].start, 1)

DBit(i) == (FirstByte(i) \div 2) % 2

WBit(i) == FirstByte(i) % 2

\* the reg operand of the i-th call's instruction
RegOperand(i) == LocRegister(RegTable(RegField(SecondByte(i)), WBit(i)))

\* l is the r/m operand of the i-th call's instruction: the register of
\* the r/m field when mod = 11, else a memory location
IsRMOperand(i, l) ==
    IF Mod(SecondByte(i)) = 3
    THEN l = LocRegister(RegTable(RM(SecondByte(i)), WBit(i)))
    ELSE l.t = "Memory"

\* C16: in the register/memory family, for every mod, reg, r/m and w: with
\* d = 1 the reg operand is the destination and the r/m operand the source,
\* with d = 0 the reg operand is the source and the r/m operand the
\* destination; 89 D9 decodes to Mov(src = bx, dst = cx)
C16_DirectionBit ==
    \A i \in 1 .. Len(trace) :
        (WholeInstruction(i) /\ RegisterMemoryFamily(i)) =>
            /\ DecodedOk(i)
            /\ DBit(i) = 1 =>
                    trace[i].instr.dst = RegOperand(i) /\ IsRMOperand(i, trace[i].instr.src)
            /\ DBit(i) = 0 =>
                    trace[i].instr.src = RegOperand(i) /\ IsRMOperand(i, trace[i].instr.dst)
            /\ (FirstByte(i) = 137 /\ SecondByte(i) = 217) =>
                    trace[i].instr = Binary("Mov", LocRegister("BX"), LocRegister("CX"))

\* 89 D9 was decoded to mov cx, bx
C16_Witness ==
    /\ source = <<137, 217>> \o Rest
    /\ Len(trace) >= 1
    /\ trace[1].instr = Binary("Mov", LocRegister("BX"), LocRegister("CX"))
    /\ trace[1].end = 2

\* the stream is a register-to-register MOV, then the same bytes with the d
\* bit flipped, then with the d bit flipped and reg and r/m exchanged
IsDirectionProgram ==
    /\ Len(source) = 6
    /\ source[1] \in 136 .. 139
    /\ Mod(source[2]) = 3
    /\ source = DirectionProgram(source[1], source[2])

\* C17: for register-to-register MOV (mod = 11), two encodings that differ
\* only in the d bit decode to the same Instruction, for every reg, r/m, w
C17_SameWhateverD ==
    (IsDirectionProgram /\ Len(trace) >= 2) =>
        /\ DecodedOk(1) /\ DecodedOk(2)
        /\ trace[1].instr = trace[2].instr

\* C17, amended: for register-to-register MOV, two encodings that differ in
\* the d bit and have the reg and r/m fields exchanged decode to the same
\* Instruction; two that differ only in the d bit decode to Movs with
\* source and destination exchanged
C17_DirectionSymmetry ==
    (IsDirectionProgram /\ Len(trace) >= 3) =>
        /\ DecodedOk(1) /\ DecodedOk(2) /\ DecodedOk(3)
        /\ trace[1].instr.op = "Mov"
        /\ trace[1].instr = trace[3].instr
        /\ trace[2].instr = Binary("Mov", trace[1].instr.dst, trace[1].instr.src)

\* 89 D9, 8B D9, 8B CB were decoded to mov cx, bx; mov bx, cx; mov cx, bx
C17_Witness ==
    /\ source = DirectionProgram(137, 217)
    /\ Len(trace) = 3
    /\ trace[1].instr = Binary("Mov", LocRegister("BX"), LocRegister("CX"))
    /\ trace[2].instr = Binary("Mov", LocRegister("CX"), LocRegister("BX"))
    /\ trace[3].instr = Binary("Mov", LocRegister("BX"), LocRegister("CX"))

\* the signed value of the 8-bit byte b and of the 16-bit word x
Signed8(b) == IF b >= 128 THEN b - 256 ELSE b

Signed16(x) == IF x >= 32768 THEN x - 65536 ELSE x

\* the effective-address table of the 8086: base and index register by r/m
EATable ==
    <<<<"BX", "SI">>, <<"BX", "DI">>, <<"BP", "SI">>, <<"BP", "DI">>,
      <<"SI", "None">>, <<"DI", "None">>, <<"BP", "None">>, <<"BX", "None">>>>

DirectAddress(b2) == Mod(b2) = 0 /\ RM(b2) = 6

\* the memory operand of the i-th call's instruction
MemoryOperand(i) ==
    IF trace[i].instr.src.t = "Memory" THEN trace[i].instr.src ELSE trace[i].instr.dst

\* the little-endian word of the stream k bytes after the start of the
\* i-th call
WordAt(i, k) == ByteAt(trace[i].start, k) + 256 * ByteAt(trace[i].start, k + 1)

\* C18: for mod in {00, 01, 10} and every r/m the memory operand has the
\* base and index registers of the effective-address table, but none for
\* mod = 00, r/m = 110, which has a 16-bit displacement (direct address);
\* the displacement is 0 with no byte read in the other mod = 00 cases,
\* one sign-extended byte for mod = 01, two bytes for mod = 10
C18_EffectiveAddress ==
    \A i \in 1 .. Len(trace) :
        (/\ WholeInstruction(i)
         /\ HasModRM(FirstByte(i))
         /\ Mod(SecondByte(i)) # 3
         /\ DecodedOk(i)) =>
            /\ MemoryOperand(i).t = "Memory"
            /\ <<MemoryOperand(i).reg1, MemoryOperand(i).reg2>>
                    = IF DirectAddress(SecondByte(i))
                      THEN <<"None", "None">>
                      ELSE EATable[RM(SecondByte(i)) + 1]
            /\ <<MemoryOperand(i).displacement, DecodedLength(i) - DataBytes(FirstByte(i)) - 2>>
                    = CASE DirectAddress(SecondByte(i)) -> <<Signed16(WordAt(i, 2)), 2>>
                        [] Mod(SecondByte(i)) = 2 -> <<Signed16(WordAt(i, 2)), 2>>
                        [] Mod(SecondByte(i)) = 1 -> <<Signed8(ByteAt(trace[i].start, 2)), 1>>
                        [] OTHER -> <<0, 0>>

\* 8B 87 D1 FE was decoded to mov ax, [bx - 303]
C18_Witness ==
    /\ source = <<139, 135>> \o Rest
    /\ Len(trace) >= 1
    /\ trace[1].instr = Binary("Mov", LocMemory("BX", "None", -303), LocRegister("AX"))
    /\ trace[1].end = 4

----------------------------------------------------------------------------
(* Specification SpecWords: next_opcode on streams of one instruction that *)
(* ends with a 16-bit or an 8-bit displacement, immediate or offset         *)

\* bytes around the sign and carry boundaries
EdgeBytes == {0, 1, 18, 52, 127, 128, 255}

\* what precedes a 16-bit value: mov ax, [addr]; mov ax, [bx + d16];
\* mov ax, [d16]; add ax, imm16; add bx, imm16
WordPrefixes == {<<161>>, <<139, 135>>, <<139, 6>>, <<5>>, <<129, 195>>}

\* what precedes an 8-bit value: mov cl, imm8; mov al, [addr]; mov ax,
\* [bp + d8]; add bx, imm8; add al, imm8; je
BytePrefixes == {<<177>>, <<160>>, <<139, 70>>, <<131, 195>>, <<4>>, <<116>>}

\* mov cx, imm16 with every pair of bytes
MovWordSources == {<<185, lo, hi>> : lo \in Byte, hi \in Byte}

WordSources == {p \o <<lo, hi>> : p \in WordPrefixes, lo \in EdgeBytes, hi \in EdgeBytes}

ByteSources == {p \o <<b>> : p \in BytePrefixes, b \in Byte}

\* Codec::new(source)
InitWords ==
    /\ \/ source \in MovWordSources /\ chunk = BufSize
       \/ source \in WordSources \cup ByteSources /\ chunk \in ChunkSizes
    /\ registers = [i \in 0 .. 10 |-> 0]
    /\ zf = FALSE /\ sf = FALSE /\ pf = FALSE /\ of = FALSE
    /\ instructions = Codec_new
    /\ read_error_at = NoReadError
    /\ status = "running"
    /\ fetched = NoFetch
    /\ jumped = FALSE
    /\ trace = <<>>

SpecWords == InitWords /\ [][NextDecode]_vars

\* the value the first call decoded: the offset of a jump, the data of an
\* immediate, else the displacement of the memory operand
DecodedValue ==
    CASE trace[1].instr.op = "Jump" -> trace[1].instr.offset
      [] trace[1].instr.src.t = "Immediate" -> trace[1].instr.src.data
      [] OTHER -> MemoryOperand(1).displacement

\* the stream ends with a 16-bit value, with an 8-bit value
EndsWithWord == source \in MovWordSources \cup WordSources

EndsWithByte == source \in ByteSources

\* C19: every 16-bit displacement or immediate is assembled little-endian:
\* for all byte pairs (lo, hi) in stream order the decoded value is the
\* signed 16-bit reading of hi * 256 + lo, never failing on overflow; every
\* 8-bit displacement or immediate byte b is sign-extended; B9 34 12 yields
\* 4660 and A1 12 34 the address 13330
C19_LittleEndian ==
    Len(trace) >= 1 =>
        /\ DecodedOk(1)
        /\ trace[1].end = Len(source)
        /\ EndsWithWord =>
                DecodedValue = Signed16(source[Len(source)] * 256 + source[Len(source) - 1])
        /\ EndsWithByte => DecodedValue = Signed8(source[Len(source)])
        /\ source = <<185, 52, 18>> => DecodedValue = 4660
        /\ source = <<161, 18, 52>> => DecodedValue = 13330

\* A1 12 34 was decoded to mov ax, [13330]
C19_Witness ==
    /\ source = <<161, 18, 52>>
    /\ Len(trace) >= 1
    /\ trace[1].instr = Binary("Mov", LocMemory("None", "None", 13330), LocRegister("AX"))

----------------------------------------------------------------------------
(* Immediate to register/memory (checked under SpecDecode)                  *)

\* first bytes of the immediate-to-register/memory MOV (1100011w) and of the
\* arithmetic immediate-to-r/m form (100000sw)
ImmediateToRMFirst == {198, 199} \cup 128 .. 131

\* call i decoded a whole instruction of one of the two forms
ImmediateToRM(i) ==
    /\ WholeInstruction(i)
    /\ FirstByte(i) \in ImmediateToRMFirst
    /\ DecodedOk(i)

\* C20: for the immediate-to-register/memory MOV form and the arithmetic
\* immediate-to-r/m form, for every second byte, the decoded Immediate
\* carries a width tag, equal to the w bit, exactly when the decoded
\* destination is a Memory location, and when mod = 11 the destination is
\* the register selected by r/m and the Immediate carries no tag
C20_ImmediateWidthTag ==
    \A i \in 1 .. Len(trace) :
        ImmediateToRM(i) =>
            /\ trace[i].instr.src.t = "Immediate"
            /\ (trace[i].instr.src.w # -1) <=> (trace[i].instr.dst.t = "Memory")
            /\ trace[i].instr.src.w # -1 => trace[i].instr.src.w = WBit(i)
            /\ Mod(SecondByte(i)) = 3 =>
                    /\ trace[i].instr.dst = LocRegister(RegTable(RM(SecondByte(i)), WBit(i)))
                    /\ trace[i].instr.src.w = -1

----------------------------------------------------------------------------
(* Immediate to accumulator (checked under SpecDecode)                      *)

\* call i decoded a whole instruction of the arithmetic immediate-to-
\* accumulator form: high nibble 0x0, 0x2 or 0x3 and bit 2 set
ImmediateToAccumulator(i) ==
    /\ WholeInstruction(i)
    /\ HighNibble(FirstByte(i)) \in {0, 2, 3}
    /\ (FirstByte(i) \div 4) % 2 = 1
    /\ FirstByte(i) \notin ExactOpcodes
    /\ DecodedOk(i)

\* C21: for every first byte of the immediate-to-accumulator arithmetic
\* form the decoded instruction has an Immediate source holding the 8-bit
\* (w = 0) or 16-bit (w = 1) data that follows and the accumulator (AL for
\* w = 0, AX for w = 1) as destination; the source is not a Memory operand
C21_ImmediateToAccumulator ==
    \A i \in 1 .. Len(trace) :
        ImmediateToAccumulator(i) =>
            /\ trace[i].instr.src.t = "Immediate"
            /\ trace[i].instr.src.t # "Memory"
            /\ trace[i].instr.src.data =
                    IF WBit(i) = 1 THEN Signed16(WordAt(i, 1))
                                   ELSE Signed8(ByteAt(trace[i].start, 1))
            /\ trace[i].instr.dst = LocRegister(IF WBit(i) = 1 THEN "AX" ELSE "AL")

----------------------------------------------------------------------------
(* Specification SpecRegister: Register::new called on u8 pairs, the       *)
(* result rendered with Display                                             *)

\* the calls of one behaviour
MaxRegisters == 2

\* the opcode and w arguments tried: the valid ones and some beyond them
Codes == 0 .. 9

Widths == 0 .. 3

InitRegister ==
    /\ source = <<>>
    /\ chunk = BufSize
    /\ read_error_at = NoReadError
    /\ registers = [i \in 0 .. 10 |-> 0]
    /\ zf = FALSE /\ sf = FALSE /\ pf = FALSE /\ of = FALSE
    /\ instructions = Codec_new
    /\ status = "running"
    /\ fetched = NoFetch
    /\ jumped = FALSE
    /\ trace = <<>>

\* one call Register::new(opcode, w), then format!("{}", register)
NewRegister ==
    /\ status = "running"
    /\ Len(trace) < MaxRegisters
    /\ \E opcode \in Codes, w \in Widths :
        /\ trace' = Append(trace,
                [opcode |-> opcode, w |-> w, reg |-> Register_new(opcode, w),
                 shown |-> IF Register_new(opcode, w) = "panic" THEN ""
                           ELSE Register_fmt(Register_new(opcode, w))])
        /\ status' = IF Register_new(opcode, w) = "panic" THEN "panic" ELSE "running"
    /\ UNCHANGED <<registers, zf, sf, pf, of, instructions, source, chunk,
                   read_error_at, fetched, jumped>>

NextRegister == NewRegister

SpecRegister == InitRegister /\ [][NextRegister]_vars

\* C22: for every pair (code in 0..7, w in {0, 1}) Register::new(code, w)
\* returns without failing, and the result renders as the code-th entry of
\* al, cl, dl, bl, ah, ch, dh, bh when w = 0 and of ax, cx, dx, bx, sp, bp,
\* si, di when w = 1; any input outside those 16 pairs is a failure
C22_RegisterTable ==
    \A i \in 1 .. Len(trace) :
        IF trace[i].opcode \in 0 .. 7 /\ trace[i].w \in {0, 1}
        THEN /\ trace[i].reg # "panic"
             /\ trace[i].shown =
                    IF trace[i].w = 0
                    THEN <<"al", "cl", "dl", "bl", "ah", "ch", "dh", "bh">>[trace[i].opcode + 1]
                    ELSE <<"ax", "cx", "dx", "bx", "sp", "bp", "si", "di">>[trace[i].opcode + 1]
        ELSE /\ trace[i].reg = "panic"
             /\ i = Len(trace) /\ status = "panic"

\* Register::new(4, 1) gave sp, then Register::new(8, 0) failed
C22_Witness ==
    /\ Len(trace) = 2
    /\ trace[1] = [opcode |-> 4, w |-> 1, reg |-> "SP", shown |-> "sp"]
    /\ trace[2].opcode = 8 /\ trace[2].w = 0 /\ trace[2].reg = "panic"
    /\ status = "panic"

----------------------------------------------------------------------------
(* Refused instructions (checked under Spec)                                *)

\* an instruction the core refuses: Mov, Add, Sub or Cmp with a Memory
\* source or destination or an Immediate destination; Adc, Sbb, Inc, Dec,
\* Daa, Aaa; a jump kind other than je, jne, jp, jb, loopnz
Refused(i) ==
    \/ /\ i.op \in {"Mov", "Add", "Sub", "Cmp"}
       /\ i.src.t = "Memory" \/ i.dst.t \in {"Memory", "Immediate"}
    \/ i.op \in {"Adc", "Sbb", "Inc", "Dec", "Daa", "Aaa"}
    \/ i.op = "Jump" /\ i.ty \notin {"Je", "Jne", "Jp", "Jb", "Loopnz"}

\* C23: executing an instruction the core refuses ends in a fatal execution
\* error, and at the point of failure no register cell and no flag has been
\* changed from its value before that instruction
C23_RefusedIsFatal ==
    (Len(trace) >= 1 /\ Refused(Last.instr)) =>
        /\ status = "panic"
        /\ registers = Last.registers
        /\ zf = Last.zf /\ sf = Last.sf /\ pf = Last.pf /\ of = Last.of

\* add ax, [bx + si] was refused with ax = 65535, the zero and the overflow
\* flag set
C23_Witness ==
    /\ Len(trace) = 1
    /\ Last.instr = Binary("Add", LocMemory("BX", "SI", 0), LocRegister("AX"))
    /\ status = "panic"
    /\ registers[0] = 65535
    /\ zf /\ of /\ ~sf /\ ~pf

----------------------------------------------------------------------------
(* Specification SpecReadError: next_opcode over a source one of whose      *)
(* reads fails with an io::Error                                            *)

\* every first byte, before a register-to-register second byte
ReadErrorSources == {<<b1, 217>> \o Rest : b1 \in Byte}

\* Codec::new(source); the read at position read_error_at will fail
InitReadError ==
    /\ source \in ReadErrorSources
    /\ chunk \in ChunkSizes
    /\ read_error_at \in 0 .. Len(source)
    /\ registers = [i \in 0 .. 10 |-> 0]
    /\ zf = FALSE /\ sf = FALSE /\ pf = FALSE /\ of = FALSE
    /\ instructions = Codec_new
    /\ status = "running"
    /\ fetched = NoFetch
    /\ jumped = FALSE
    /\ trace = <<>>

SpecReadError == InitReadError /\ [][NextDecode]_vars

\* the last call of next_opcode ended on a get_byte whose read of the
\* source failed: it gave no instruction, the buffer is used up and the
\* source stands at the failing position
ReadFailed ==
    /\ Len(trace) >= 1
    /\ Last.st # "ok"
    /\ instructions.cur_byte >= instructions.len
    /\ instructions.pos = read_error_at

\* C24: when a read of the byte source fails with an I/O error while the
\* decoder is fetching a byte, the failure is reported as a fatal error; it
\* is never turned into the end-of-stream signal that ends decoding
C24_ReadErrorIsFatal == ReadFailed => (status = "panic" /\ Last.st = "panic")

----------------------------------------------------------------------------
(* Specification SpecDump: execute_instruction as in Spec, and the public   *)
(* Cpu::print_registers called on the state reached                         *)

\* the digits of x in a base, most significant first
RECURSIVE Digits(_, _)
Digits(x, base) ==
    IF x < base THEN <<x>> ELSE Append(Digits(x \div base, base), x % base)

\* {:#04x}: the hex digits after "0x", padded with zeros to two
fmt_hex(x) == IF x < 16 THEN <<0, x>> ELSE Digits(x, 16)

\* Cpu::print_flags: the letters after "flags: "
print_flags == (IF zf THEN <<"Z">> ELSE <<>>) \o (IF sf THEN <<"S">> ELSE <<>>)

\* Cpu::print_registers: the eleven lines "name: hex (decimal)", with the
\* cells the hex and the decimal argument of each println! name
print_registers ==
    [k \in 1 .. 11 |->
        [name |-> <<"ax", "bx", "cx", "dx", "sp", "bp", "si", "di", "ss", "ds", "es">>[k],
         hex |-> fmt_hex(registers[IF k <= 8 THEN k - 1 ELSE 7]),
         dec |-> Digits(registers[k - 1], 10)]]

\* a dump has been printed
Printed == Len(trace) >= 1 /\ "lines" \in DOMAIN Last

\* one call of the public Cpu::print_registers, which ends with print_flags
PrintRegisters ==
    /\ status = "running"
    /\ ~Printed
    /\ trace' = Append(trace, [lines |-> print_registers, flags |-> print_flags])
    /\ UNCHANGED <<registers, zf, sf, pf, of, instructions, source, chunk,
                   read_error_at, status, fetched, jumped>>

NextDump == Execute \/ PrintRegisters

SpecDump == Init /\ [][NextDump]_vars

\* the number that digits, most significant first, write in a base
RECURSIVE ValueOf(_, _)
ValueOf(digits, base) ==
    IF digits = <<>> THEN 0
    ELSE ValueOf(SubSeq(digits, 1, Len(digits) - 1), base) * base + digits[Len(digits)]

\* C25: in every reachable state the register/flag dump reflects the state
\* faithfully: each of the eleven register lines shows the value of that
\* same register cell both in hex and in decimal, and the flags line lists
\* exactly the flags currently set among Z, S, P, O, in that order, omitting
\* the unset ones
C25_DumpFaithful ==
    Printed =>
        /\ \A k \in 1 .. 11 :
            /\ ValueOf(Last.lines[k].hex, 16) = registers[k - 1]
            /\ ValueOf(Last.lines[k].dec, 10) = registers[k - 1]
        /\ Last.flags = (IF zf THEN <<"Z">> ELSE <<>>) \o (IF sf THEN <<"S">> ELSE <<>>)
                            \o (IF pf THEN <<"P">> ELSE <<>>) \o (IF of THEN <<"O">> ELSE <<>>)

----------------------------------------------------------------------------
(* Add and Sub on byte registers (checked under Spec)                       *)

\* Add or Sub on registers with a destination among regs was executed
\* without a panic
ByteArithmetic(regs) ==
    /\ Len(trace) >= 1
    /\ Last.instr.op \in {"Add", "Sub"}
    /\ OnRegisters(Last.instr)
    /\ Last.instr.dst.reg \in regs
    /\ ~Last.panicked

\* C26: executing Add or Sub with a byte-low destination (al, bl, cl, dl)
\* leaves the high byte of the owning 16-bit cell unchanged, and with a
\* byte-high destination (ah, bh, ch, dh) leaves the low byte unchanged and
\* combines the source with the prior high byte, for all cell and source
\* values
C26_ByteViewFrame ==
    /\ ByteArithmetic(DOMAIN LowCell) =>
            registers[LowCell[Last.instr.dst.reg]] \div 256
                = Last.registers[LowCell[Last.instr.dst.reg]] \div 256
    /\ ByteArithmetic(DOMAIN HighCell) =>
            /\ registers[HighCell[Last.instr.dst.reg]] % 256
                    = Last.registers[HighCell[Last.instr.dst.reg]] % 256
            /\ registers[HighCell[Last.instr.dst.reg]] \div 256
                    = IF Last.instr.op = "Add"
                      THEN ((Last.registers[HighCell[Last.instr.dst.reg]] \div 256)
                                + OperandValue(Last.registers, Last.instr.src)) % 256
                      ELSE ((Last.registers[HighCell[Last.instr.dst.reg]] \div 256)
                                - OperandValue(Last.registers, Last.instr.src)) % 256

----------------------------------------------------------------------------
(* Specification SpecBytes: get_byte called again and again on a source    *)
(* that delivers its bytes in chunks                                        *)

\* the longest of the short streams
MaxStream == 4

\* short streams over a few bytes, and one stream longer than the buffer
ShortStreams == UNION {[1 .. n -> {0, 7, 255}] : n \in 0 .. MaxStream}

LongStream == [i \in 1 .. BufSize + 6 |-> (i * 7) % 256]

\* a source keeps filling the buffer or keeps delivering a few bytes a read
BulkChunks == {BufSize, BufSize + 976}

SmallChunks == {1, 2, 3}

\* Codec::new(source)
InitBytes ==
    /\ \/ source \in ShortStreams /\ chunk \in SmallChunks \cup BulkChunks
       \/ source = LongStream /\ chunk \in BulkChunks \cup {3}
    /\ read_error_at = NoReadError
    /\ registers = [i \in 0 .. 10 |-> 0]
    /\ zf = FALSE /\ sf = FALSE /\ pf = FALSE /\ of = FALSE
    /\ instructions = Codec_new
    /\ status = "running"
    /\ fetched = NoFetch
    /\ jumped = FALSE
    /\ trace = <<>>

\* the outcome r of one call: Some(byte) joins the bytes returned, None is
\* the end signal
Got(r) ==
    /\ instructions' = r.c
    /\ trace' = IF r.st = "ok" THEN Append(trace, r.v) ELSE trace
    /\ status' = IF r.st = "ok" THEN "running" ELSE "done"

\* one call of the public Codec::get_byte; the source picks the size of the
\* chunk its next read delivers
GetByte ==
    /\ status = "running"
    /\ Got(get_byte(instructions))
    /\ chunk' \in IF chunk \in SmallChunks /\ Len(source) <= MaxStream
                  THEN SmallChunks ELSE {chunk}
    /\ UNCHANGED <<registers, zf, sf, pf, of, source, read_error_at, fetched, jumped>>

NextBytes == GetByte

SpecBytes == InitBytes /\ [][NextBytes]_vars

\* C27: in every reachable state of the decoder's buffer, cur_byte <= len <=
\* 1024, and for a source delivered in chunks of any sizes the sequence of
\* bytes returned by successive get_byte calls is exactly the source's byte
\* sequence in order, with no byte skipped or returned twice across buffer
\* refills; get_byte returns the end signal only after every source byte
\* has been returned
C27_BufferedBytes ==
    /\ instructions.cur_byte <= instructions.len
    /\ instructions.len <= 1024
    /\ Len(trace) <= Len(source)
    /\ trace = SubSeq(source, 1, Len(trace))
    /\ status = "done" => trace = source

\* the stream longer than the buffer was returned whole, the buffer filled
\* to 1024 bytes and refilled with the rest
C27_Witness ==
    /\ source = LongStream
    /\ chunk = BufSize + 976
    /\ status = "done"
    /\ trace = source
    /\ Len(trace) = 1030

====
